---- MODULE Spec2Model ----
(***************************************************************************)
(* Model of the collaborative-editing server in ot.py: the operational     *)
(* transform algebra (Insert, Delete, after, inverse, conflicts), the      *)
(* per-connection Shadow and the EditServer with its transport.            *)
(*                                                                         *)
(* Conventions.  A document is a sequence of bytes (0..255).  An operation *)
(* is a record whose "type" field is "Insert" or "Delete"; Python's None   *)
(* is the record NoneOp.  A Delete's optional text is a set: {} is None    *)
(* and {t} is the text t.  Editor ids are strings: the str "server" that   *)
(* EditServer puts in its own ids, and the decimal numerals "0", "1", "2"  *)
(* for the ints that arrive on (or are fixed for) the wire.  An exception  *)
(* that leaves a task is recorded by its class name in `crashed`.          *)
(***************************************************************************)
EXTENDS Integers, Sequences, FiniteSets, TLC

VARIABLES
    edits,      \* EditServer.edits: the authoritative history
    text,       \* EditServer.text: the document
    conns,      \* EditServer.conns
    shadows,    \* EditServer.shadows: conn -> Shadow
    chans,      \* SocketTransport.chans: conn -> queued outbound messages
    task,       \* per connection: where its negotiator/reader coroutine stands
    crashed,    \* an exception has left a task: the nursery is torn down
    nlines,     \* number of inbound lines delivered so far
    alg         \* harness for the pure functions of the algebra

vars == <<edits, text, conns, shadows, chans, task, crashed, nlines, alg>>

-----------------------------------------------------------------------------
(* Bounds *)

MaxLines == 2
MaxSeq == 1
MaxDocLen == 3
MaxOpLen == 2
MaxTextLen == 3

Chars == {97, 98}

-----------------------------------------------------------------------------
(* Python helpers *)

Min(x, y) == IF x <= y THEN x ELSE y

\* text[:n] for n >= 0
Take(s, n) == SubSeq(s, 1, Min(n, Len(s)))

\* text[n:] for n >= 0
Drop(s, n) == SubSeq(s, Min(n, Len(s)) + 1, Len(s))

NoneOp == [type |-> "None"]

\* what the model keeps as the document when op.apply raised AttributeError
\* (op was None): a sequence that is no byte string
AttributeErrorDoc == <<0 - 1>>

-----------------------------------------------------------------------------
(* The operation algebra *)

Insert(idx, txt) == [type |-> "Insert", idx |-> idx, text |-> txt]

Delete(idx, nchars, txt) ==
    [type |-> "Delete", idx |-> idx, nchars |-> nchars, text |-> txt]

InsertApply(self, t) == Take(t, self.idx) \o self.text \o Drop(t, self.idx)

DeleteApply(self, t) == Take(t, self.idx) \o Drop(t, self.idx + self.nchars)

\* op.apply(text); calling it on None raises AttributeError
Apply(op, t) ==
    CASE op.type = "Insert" -> InsertApply(op, t)
      [] op.type = "Delete" -> DeleteApply(op, t)
      [] OTHER -> AttributeErrorDoc

InsertAfterNoShift(self, other) ==
    IF other.type = "Insert"
    THEN IF other.idx > self.idx
         THEN self
         ELSE IF other.idx = self.idx
              THEN Insert(self.idx + Len(other.text), self.text)
              ELSE self
    ELSE IF other.idx > self.idx
         THEN self
         ELSE IF other.idx + other.nchars < self.idx
              THEN Insert(self.idx - other.nchars, self.text)
              ELSE Insert(other.idx, self.text)

InsertAfter(self, other) ==
    IF other.type = "Insert"
    THEN IF other.idx > self.idx
         THEN self
         ELSE IF other.idx = self.idx
              THEN Insert(self.idx + Len(other.text), self.text)
              ELSE Insert(self.idx + Len(other.text), self.text)
    ELSE IF other.idx > self.idx
         THEN self
         ELSE IF other.idx + other.nchars < self.idx
              THEN Insert(self.idx - other.nchars, self.text)
              ELSE Insert(other.idx, self.text)

DeleteAfterNoShift(self, other) ==
    IF other.type = "Insert"
    THEN IF other.idx > self.idx + self.nchars
         THEN self
         ELSE IF other.idx < self.idx
              THEN self
              ELSE IF other.idx = self.idx
                   THEN Delete(self.idx + Len(other.text), self.nchars, self.text)
                   ELSE IF other.idx = self.idx + self.nchars
                        THEN self
                        ELSE Delete(self.idx, self.nchars + Len(other.text), {})
    ELSE IF other.idx >= self.idx + self.nchars
         THEN self
         ELSE IF other.idx + other.nchars <= self.idx
              THEN Delete(self.idx - other.nchars, self.nchars, self.text)
              ELSE IF other.idx <= self.idx
                   THEN IF other.idx + other.nchars >= self.idx + self.nchars
                        THEN NoneOp
                        ELSE Delete(other.idx,
                                    self.nchars
                                      - (other.nchars - (self.idx - other.idx)),
                                    {})
                   ELSE IF other.idx + other.nchars > self.idx + self.nchars
                        THEN Delete(self.idx, other.idx - self.idx, {})
                        ELSE Delete(self.idx, self.nchars - other.nchars, {})

DeleteAfter(self, other) ==
    IF other.type = "Insert"
    THEN IF other.idx > self.idx + self.nchars
         THEN self
         ELSE IF other.idx < self.idx
              THEN Delete(self.idx + Len(other.text), self.nchars, self.text)
              ELSE IF other.idx = self.idx
                   THEN Delete(self.idx + Len(other.text), self.nchars, self.text)
                   ELSE IF other.idx = self.idx + self.nchars
                        THEN self
                        ELSE Delete(self.idx, self.nchars + Len(other.text), {})
    ELSE IF other.idx >= self.idx + self.nchars
         THEN self
         ELSE IF other.idx + other.nchars <= self.idx
              THEN Delete(self.idx - other.nchars, self.nchars, self.text)
              ELSE IF other.idx <= self.idx
                   THEN IF other.idx + other.nchars >= self.idx + self.nchars
                        THEN NoneOp
                        ELSE Delete(other.idx,
                                    self.nchars
                                      - (other.nchars - (self.idx - other.idx)),
                                    {})
                   ELSE IF other.idx + other.nchars > self.idx + self.nchars
                        THEN Delete(self.idx, other.idx - self.idx, {})
                        ELSE Delete(self.idx, self.nchars - other.nchars, {})

\* self.after(other) for operations self and other
After(self, other) ==
    IF self.type = "Insert"
    THEN InsertAfter(self, other)
    ELSE DeleteAfter(self, other)

\* conflicts finding a conflict between two Inserts only
conflictsInserts(a, b) ==
    a.type = "Insert" /\ b.type = "Insert" /\ a.idx = b.idx

\* conflicts without putting the lower Delete first
conflictsNoSwap(a, b) ==
    IF a.type = "Insert" /\ b.type = "Insert"
    THEN a.idx = b.idx
    ELSE IF a.type = "Delete" /\ b.type = "Delete"
         THEN a.idx + a.nchars >= b.idx
         ELSE LET i == IF a.type = "Insert" THEN a ELSE b
                  d == IF a.type = "Insert" THEN b ELSE a
              IN  i.idx >= d.idx /\ i.idx <= d.idx + d.nchars

conflicts(a, b) ==
    IF a.type = "Insert" /\ b.type = "Insert"
    THEN a.idx = b.idx
    ELSE IF a.type = "Delete" /\ b.type = "Delete"
         THEN LET lo == IF a.idx > b.idx THEN b ELSE a
                  hi == IF a.idx > b.idx THEN a ELSE b
              IN  lo.idx + lo.nchars >= hi.idx
         ELSE LET i == IF a.type = "Insert" THEN a ELSE b
                  d == IF a.type = "Insert" THEN b ELSE a
              IN  i.idx >= d.idx /\ i.idx <= d.idx + d.nchars

-----------------------------------------------------------------------------
(* Harness for the algebra: the inputs are drawn in AlgInit, the actions    *)
(* apply the functions and keep what they returned.                         *)

RECURSIVE SeqsUpTo(_, _)
SeqsUpTo(S, n) ==
    IF n = 0 THEN {<<>>}
    ELSE LET shorter == SeqsUpTo(S, n - 1)
         IN  shorter \cup {Append(s, c) : s \in shorter, c \in S}

AlgDocs == SeqsUpTo(Chars, MaxDocLen)

AlgTexts == SeqsUpTo({120, 121}, MaxOpLen)

\* the Inserts, the Deletes without their text, and the Deletes that carry
\* the nchars bytes they remove
AlgOps ==
    {Insert(i, t) : i \in 0..MaxDocLen, t \in AlgTexts}
    \cup {Delete(i, n, {}) : i \in 0..MaxDocLen, n \in 0..MaxDocLen}
    \cup {Delete(i, n, {[k \in 1..n |-> 97]}) :
            i \in 0..MaxDocLen, n \in 0..MaxDocLen}

\* the applicability invariant of an operation against a document
Applicable(op, d) ==
    IF op.type = "Insert"
    THEN op.idx <= Len(d)
    ELSE op.idx + op.nchars <= Len(d)

AlgOff == [phase |-> "off"]

AlgInit ==
    /\ alg \in [phase : {"in"}, doc : AlgDocs, a : AlgOps, b : AlgOps,
                b_a : {NoneOp}, a_b : {NoneOp}, ab : {<<>>}, ba : {<<>>},
                c_ab : {FALSE}, c_ba : {FALSE}]
    /\ edits = <<>>
    /\ text = <<>>
    /\ conns = {}
    /\ shadows = <<>>
    /\ chans = <<>>
    /\ task = <<>>
    /\ crashed = "none"
    /\ nlines = 0

\* a - x - y(x) against a - y - x(y)
AlgConverge ==
    /\ alg.phase = "in"
    /\ alg' = [alg EXCEPT
                 !.phase = "converge",
                 !.b_a = After(alg.b, alg.a),
                 !.a_b = After(alg.a, alg.b),
                 !.ab = Apply(After(alg.b, alg.a), Apply(alg.a, alg.doc)),
                 !.ba = Apply(After(alg.a, alg.b), Apply(alg.b, alg.doc)),
                 !.c_ab = conflicts(alg.a, alg.b),
                 !.c_ba = conflicts(alg.b, alg.a)]
    /\ UNCHANGED <<edits, text, conns, shadows, chans, task, crashed, nlines>>

AlgNext == AlgConverge

AlgSpec == AlgInit /\ [][AlgNext]_vars

\* C1: for operations a, b both applicable to doc and not in conflict,
\* applying a then b.after(a) gives the same document as b then a.after(b).
C1_Convergence ==
    (/\ alg.phase = "converge"
     /\ Applicable(alg.a, alg.doc)
     /\ Applicable(alg.b, alg.doc)
     /\ ~conflicts(alg.a, alg.b))
    => alg.ab = alg.ba

\* a Delete and an Insert before it, not in conflict, have been transformed
C1_Witness ==
    /\ alg.phase = "converge"
    /\ Applicable(alg.a, alg.doc)
    /\ Applicable(alg.b, alg.doc)
    /\ ~conflicts(alg.a, alg.b)
    /\ alg.a.type = "Delete" /\ alg.a.nchars > 0
    /\ alg.b.type = "Insert" /\ Len(alg.b.text) > 0
    /\ alg.b.idx < alg.a.idx
    /\ alg.b_a # alg.b \/ alg.a_b # alg.a

\* C17: conflicts(a, b) = conflicts(b, a) for every pair of operations,
\* zero-length Deletes and empty-text Inserts included.
C17_ConflictsSymmetric ==
    alg.phase = "converge" => alg.c_ab = alg.c_ba

\* a zero-length Delete and an empty Insert at one index conflict both ways,
\* and so do two Deletes that only touch, the higher one given first
C17_Witness ==
    /\ alg.phase = "converge"
    /\ alg.c_ab
    /\ alg.c_ba
    /\ \/ /\ alg.a.type = "Delete" /\ alg.a.nchars = 0
          /\ alg.b.type = "Insert" /\ alg.b.text = <<>>
          /\ alg.a.idx = alg.b.idx
       \/ /\ alg.a.type = "Delete" /\ alg.b.type = "Delete"
          /\ alg.b.idx + alg.b.nchars = alg.a.idx
          /\ alg.b.nchars > 0

-----------------------------------------------------------------------------
(* Harness for the inverses: an operation is applied to a document and its  *)
(* inverse to the result.                                                   *)

\* text[idx : idx + nchars] of a Python bytes object
Slice(t, idx, nchars) == Take(Drop(t, idx), nchars)

\* Insert.inverse with a Delete that removes nothing
InsertInverseEmpty(self) ==
    [err |-> "none", ot |-> Delete(self.idx, 0, {self.text})]

InsertInverse(self) ==
    [err |-> "none", ot |-> Delete(self.idx, Len(self.text), {self.text})]

\* Delete.inverse asserts that the Delete has its text
DeleteInverse(self) ==
    IF self.text = {}
    THEN [err |-> "AssertionError", ot |-> NoneOp]
    ELSE [err |-> "none",
          ot |-> Insert(self.idx, CHOOSE t \in self.text : TRUE)]

inverse(op) ==
    IF op.type = "Insert" THEN InsertInverse(op) ELSE DeleteInverse(op)

\* the operations tried on doc: the Inserts, each Delete with the text it
\* removes from doc, and each Delete without its text
InvOps(doc) ==
    {Insert(i, t) : i \in 0..MaxDocLen, t \in AlgTexts}
    \cup {Delete(i, n, {Slice(doc, i, n)}) : i \in 0..MaxDocLen, n \in 0..MaxDocLen}
    \cup {Delete(i, n, {}) : i \in 0..MaxDocLen, n \in 0..MaxDocLen}

InvInit ==
    /\ alg \in UNION {[phase : {"inv"}, doc : {d}, op : InvOps(d),
                       inv : {[err |-> "none", ot |-> NoneOp]},
                       undone : {<<>>}] : d \in AlgDocs}
    /\ edits = <<>>
    /\ text = <<>>
    /\ conns = {}
    /\ shadows = <<>>
    /\ chans = <<>>
    /\ task = <<>>
    /\ crashed = "none"
    /\ nlines = 0

\* op.inverse().apply(op.apply(doc))
InvApply ==
    /\ alg.phase = "inv"
    /\ \E inv \in {inverse(alg.op)} :
         alg' = [alg EXCEPT
                   !.phase = "inverted",
                   !.inv = inv,
                   !.undone = IF inv.err = "none"
                              THEN Apply(inv.ot, Apply(alg.op, alg.doc))
                              ELSE <<>>]
    /\ UNCHANGED <<edits, text, conns, shadows, chans, task, crashed, nlines>>

InvNext == InvApply

InvSpec == InvInit /\ [][InvNext]_vars

\* C18: for an Insert applicable to doc, and for a Delete applicable to doc
\* whose recovered text is the text it removes from doc, applying the
\* operation and then its inverse gives doc back.
C18_InverseUndoes ==
    (/\ alg.phase = "inverted"
     /\ Applicable(alg.op, alg.doc)
     /\ alg.op.type = "Delete" =>
          alg.op.text = {Slice(alg.doc, alg.op.idx, alg.op.nchars)})
    => /\ alg.inv.err = "none"
       /\ alg.undone = alg.doc

\* a Delete that removes text from the middle of doc has been undone
C18_Witness ==
    /\ alg.phase = "inverted"
    /\ alg.op.type = "Delete"
    /\ alg.op.idx > 0
    /\ alg.op.nchars > 0
    /\ alg.op.idx + alg.op.nchars < Len(alg.doc)
    /\ alg.op.text # {}
    /\ alg.inv.ot = Insert(alg.op.idx, Slice(alg.doc, alg.op.idx, alg.op.nchars))
    /\ alg.undone = alg.doc

-----------------------------------------------------------------------------
(* Wire encoding *)

Hex == <<48, 49, 50, 51, 52, 53, 54, 55, 56, 57, 97, 98, 99, 100, 101, 102>>

\* encoder[b], or <<b>> where encoder.get(b) is None
encoder(b) ==
    CASE b = 0 -> <<92, 48>>
      [] b = 8 -> <<92, 98>>
      [] b = 9 -> <<92, 116>>
      [] b = 10 -> <<92, 110>>
      [] b = 13 -> <<92, 114>>
      [] b = 92 -> <<92, 92>>
      [] b \in (1..7) \cup {11, 12} \cup (14..31) \cup {127} ->
            <<92, 120, Hex[(b \div 16) + 1], Hex[(b % 16) + 1]>>
      [] OTHER -> <<b>>

RECURSIVE encode_text(_)
encode_text(msg_byts) ==
    IF msg_byts = <<>> THEN <<>>
    ELSE encoder(Head(msg_byts)) \o encode_text(Tail(msg_byts))

\* the fields of the wire form of an operation: type, idx, arg
encode_ot(ot) ==
    IF ot.type = "Insert"
    THEN [typ |-> "i", idx |-> ot.idx, arg |-> encode_text(ot.text)]
    ELSE [typ |-> "d", idx |-> ot.idx, arg |-> ot.nchars]

-----------------------------------------------------------------------------
(* Edits and shadows *)

ID(id, editor) == [id |-> id, editor |-> editor]

\* submitted_id holds an editor (an int, or the str "server"), never an ID:
\* it is kept as a record without an id field, which no ID equals
Edit(ot, id, parent, submitted_id) ==
    [ot |-> ot, id |-> id, parent |-> parent,
     submitted_id |-> [editor |-> submitted_id]]

EditMod(ot, old) == [ot |-> ot, old |-> old]

Shadow(base_id) ==
    [dirty |-> FALSE,
     last_known_id |-> base_id,
     submissions |-> <<>>,
     submission_ids |-> {},
     tail |-> <<>>]

\* seq[n:] of a Python list, n >= 0
ListFrom(seq, n) == SubSeq(seq, Min(n, Len(seq)) + 1, Len(seq))

\* the loop writing the rebased op into the edit it came from as well
RECURSIVE RebaseInPlace(_, _, _, _)
RebaseInPlace(x, dirty, tail, i) ==
    IF i > Len(tail)
    THEN [x |-> x, dirty |-> dirty, tail |-> tail, err |-> "none"]
    ELSE IF x.type = "None"
         THEN [x |-> x, dirty |-> dirty, tail |-> tail,
               err |-> "AttributeError"]
         ELSE LET t == tail[i]
                  dirty1 == dirty \/ conflicts(x, t.ot)
                  x_new == After(x, t.ot)
                  tail1 == IF ~dirty1
                           THEN [tail EXCEPT ![i].ot = After(t.ot, x),
                                             ![i].old.ot = After(t.ot, x)]
                           ELSE tail
              IN  RebaseInPlace(x_new, dirty1, tail1, i + 1)

\* the loop of Shadow.new_submission over self.tail from position i on, with
\* x and self.dirty as they stand; err names the exception that ended it
RECURSIVE Rebase(_, _, _, _)
Rebase(x, dirty, tail, i) ==
    IF i > Len(tail)
    THEN [x |-> x, dirty |-> dirty, tail |-> tail, err |-> "none"]
    ELSE IF x.type = "None"
         THEN \* conflicts(None, t.ot) reads None.idx
              [x |-> x, dirty |-> dirty, tail |-> tail,
               err |-> "AttributeError"]
         ELSE LET t == tail[i]
                  dirty1 == dirty \/ conflicts(x, t.ot)
                  x_new == After(x, t.ot)
                  tail1 == IF ~dirty1
                           THEN [tail EXCEPT ![i].ot = After(t.ot, x)]
                           ELSE tail
              IN  Rebase(x_new, dirty1, tail1, i + 1)

\* the end of new_submission returning None for a shadow the loop left dirty
store_submissionRejects(known, edit, r) ==
    IF r.err # "none"
    THEN [shadow |-> [known EXCEPT !.tail = r.tail, !.dirty = r.dirty],
          ot |-> NoneOp, err |-> r.err]
    ELSE IF ~r.dirty
         THEN [shadow |-> [known EXCEPT
                             !.tail = r.tail,
                             !.dirty = r.dirty,
                             !.submissions = Append(@, edit),
                             !.submission_ids = @ \cup {edit.id}],
               ot |-> r.x, err |-> "none"]
         ELSE [shadow |-> [known EXCEPT !.tail = r.tail, !.dirty = r.dirty],
               ot |-> NoneOp, err |-> "none"]

\* the end of Shadow.new_submission, r being what the loop over the tail
\* left: the submission is stored unless the shadow is dirty, and x returned
store_submission(known, edit, r) ==
    IF r.err # "none"
    THEN [shadow |-> [known EXCEPT !.tail = r.tail, !.dirty = r.dirty],
          ot |-> NoneOp, err |-> r.err]
    ELSE IF ~r.dirty
         THEN [shadow |-> [known EXCEPT
                             !.tail = r.tail,
                             !.dirty = r.dirty,
                             !.submissions = Append(@, edit),
                             !.submission_ids = @ \cup {edit.id}],
               ot |-> r.x, err |-> "none"]
         ELSE [shadow |-> [known EXCEPT !.tail = r.tail, !.dirty = r.dirty],
               ot |-> r.x, err |-> "none"]

\* the filter dropping every edit that a client submitted
new_external_editsOfServer(known, new_edits) ==
    LET keep(n) == n.submitted_id.editor = "server"
    IN  SelectSeq(new_edits, keep)

\* the new edits that are not in self.submission_ids already
new_external_edits(known, new_edits) ==
    LET keep(n) == n.submitted_id \notin known.submission_ids
    IN  SelectSeq(new_edits, keep)

\* Shadow.new_submission once last_known_id is set (known): the dirty check,
\* the filter of the new edits and its assertion, the tail and the rebase
filter_and_rebase(known, edit, new_edits, external) ==
    IF known.dirty
    THEN [shadow |-> known, ot |-> NoneOp, err |-> "none"]
    ELSE IF external # new_edits /\ external # ListFrom(new_edits, 1)
         THEN [shadow |-> known, ot |-> NoneOp, err |-> "AssertionError"]
         ELSE store_submission(
                  known, edit,
                  Rebase(edit.ot, known.dirty,
                         known.tail \o [k \in 1..Len(external) |->
                                          EditMod(external[k].ot, external[k])],
                         1))

\* new_submission taking the new edits into the tail before its dirty check
new_submissionTailFirst(self, edit, new_edits) ==
    IF new_edits # <<>>
    THEN filter_and_rebase(
             [self EXCEPT
                !.last_known_id = new_edits[Len(new_edits)].id,
                !.tail = @ \o [k \in 1..Len(new_edits) |->
                                 EditMod(new_edits[k].ot, new_edits[k])]],
             edit, <<>>, <<>>)
    ELSE filter_and_rebase(self, edit, new_edits, <<>>)

\* Shadow.new_submission: the shadow as the call leaves it, the value it
\* returns (ot) and the exception it raised, if any (err)
new_submission(self, edit, new_edits) ==
    IF new_edits # <<>>
    THEN filter_and_rebase(
             [self EXCEPT !.last_known_id = new_edits[Len(new_edits)].id],
             edit, new_edits,
             new_external_edits(
                 [self EXCEPT !.last_known_id = new_edits[Len(new_edits)].id],
                 new_edits))
    ELSE filter_and_rebase(self, edit, new_edits,
                           new_external_edits(self, new_edits))

\* ---- Shadow.new_submission on its own ----

\* the sequences of one or two operations that apply to doc in turn
ShadowTails(doc) ==
    LET first == {a \in AlgOps : Applicable(a, doc)}
    IN  {<<a>> : a \in first}
        \cup UNION {{<<a, b>> : b \in {o \in AlgOps :
                                        Applicable(o, Apply(a, doc))}} :
                    a \in first}

\* a fresh shadow based on server edit 0, a Delete x written against doc, and
\* the server edits that came after edit 0
ShadowInit ==
    /\ alg \in UNION {[phase : {"shadow"}, doc : {d},
                       x : {o \in AlgOps : o.type = "Delete" /\ Applicable(o, d)},
                       new_ops : ShadowTails(d),
                       res : {[err |-> "none", ot |-> NoneOp]}] :
                      d \in {doc \in AlgDocs : Len(doc) = MaxDocLen}}
    /\ edits = <<>>
    /\ text = <<>>
    /\ conns = {}
    /\ shadows = <<>>
    /\ chans = <<>>
    /\ task = <<>>
    /\ crashed = "none"
    /\ nlines = 0

\* shadow.new_submission(edit, new_edits) as submission_atomic calls it
ShadowSubmit ==
    /\ alg.phase = "shadow"
    /\ \E res \in {new_submission(
                      Shadow(ID(0, "0")),
                      Edit(alg.x, ID(0, "1"), ID(0, "0"), "1"),
                      [k \in 1..Len(alg.new_ops) |->
                         Edit(alg.new_ops[k], ID(k, "server"),
                              ID(k - 1, "server"), "server")])} :
         alg' = [alg EXCEPT !.phase = "submitted", !.res = res]
    /\ UNCHANGED <<edits, text, conns, shadows, chans, task, crashed, nlines>>

ShadowNext == ShadowSubmit

ShadowSpec == ShadowInit /\ [][ShadowNext]_vars

\* decode_text: the bytes it returns (out) and the exception it raised (err)
RECURSIVE decode_text(_)
decode_text(wire_byts) ==
    LET ok(b, n) ==
            LET rest == decode_text(ListFrom(wire_byts, n))
            IN  [rest EXCEPT !.out = <<b>> \o @]
        fail(e) == [err |-> e, out |-> <<>>]
    IN  IF wire_byts = <<>> THEN [err |-> "none", out |-> <<>>]
        ELSE IF wire_byts[1] # 92 THEN ok(wire_byts[1], 1)
        ELSE IF Len(wire_byts) = 1 THEN fail("ValueError")
        ELSE LET c1 == wire_byts[2]
             IN  CASE c1 = 48 -> ok(0, 2)
                   [] c1 = 98 -> ok(8, 2)
                   [] c1 = 116 -> ok(9, 2)
                   [] c1 = 110 -> ok(10, 2)
                   [] c1 = 114 -> ok(13, 2)
                   [] c1 = 120 ->
                        IF 2 + 1 >= Len(wire_byts)
                        THEN fail("ValueError")
                        ELSE \* wire_byte is not defined
                             fail("NameError")
                   [] OTHER -> fail("ValueError")

\* Insert(int(idx_text), decode_text(arg_text)), d being what decode_text gave
decoded_insert(idx_text, d) == [err |-> d.err, ot |-> Insert(idx_text, d.out)]

\* decode_ot: the operation (ot) or the exception raised (err); an unknown
\* type falls off the end of the function, which returns None
decode_ot(typ_text, idx_text, arg_text) ==
    IF typ_text = "i"
    THEN decoded_insert(idx_text, decode_text(arg_text))
    ELSE IF typ_text = "d"
         THEN \* Delete() is called without its text argument
              [err |-> "TypeError", ot |-> NoneOp]
         ELSE [err |-> "none", ot |-> NoneOp]

\* the Edit that Edit.from_line builds from what decode_ot returned (d); a
\* line short of fields (IndexError) or with a numeric field that int()
\* refuses ends, like any exception of decode_ot, in ValueError
line_edit(line, editor, d) ==
    [err |-> IF line.form # "ok" \/ d.err # "none" THEN "ValueError"
             ELSE "none",
     edit |-> [ot |-> d.ot,
               id |-> ID(line.id, editor),
               parent |-> ID(line.parent_id, line.parent_editor),
               submitted_id |-> [editor |-> editor]]]

\* Edit.from_line: any exception is re-raised as ValueError
from_line(line, editor) ==
    line_edit(line, editor, decode_ot(line.typ, line.idx, line.arg))

-----------------------------------------------------------------------------
(* Harness for the text encoding: a byte sequence is encoded and decoded    *)
(* again, and a sample of wire text is decoded.                             *)

\* a byte of every kind the encoder knows: \0, \xNN, \n, \\, plain, \x7f
TextBytes == {0, 7, 10, 92, 97, 127}

\* wire text: each escape with a plain byte before it, and a lone backslash
WireSamples ==
    {<<97, 92, c>> : c \in {48, 98, 116, 110, 114, 92, 113}}
    \cup {<<97, 92, 120, 52, 49>>, <<97, 92, 120, 48, 98>>,
          <<97, 92, 120, 48, 66>>, <<97, 92, 120, 52>>, <<97, 92>>}

NoText == [err |-> "none", out |-> <<>>]

TextInit ==
    /\ alg \in [phase : {"text"}, b : SeqsUpTo(TextBytes, MaxTextLen),
                wire : WireSamples, enc : {<<>>}, back : {NoText},
                dec : {NoText}]
    /\ edits = <<>>
    /\ text = <<>>
    /\ conns = {}
    /\ shadows = <<>>
    /\ chans = <<>>
    /\ task = <<>>
    /\ crashed = "none"
    /\ nlines = 0

\* decode_text(encode_text(b)), and decode_text(wire)
TextRoundTrip ==
    /\ alg.phase = "text"
    /\ alg' = [alg EXCEPT
                 !.phase = "decoded",
                 !.enc = encode_text(alg.b),
                 !.back = decode_text(encode_text(alg.b)),
                 !.dec = decode_text(alg.wire)]
    /\ UNCHANGED <<edits, text, conns, shadows, chans, task, crashed, nlines>>

TextNext == TextRoundTrip

TextSpec == TextInit /\ [][TextNext]_vars

\* what the wire format says a sample of wire text stands for: the bytes, or
\* no bytes at all for an escape that does not exist or is cut short
WireMeaning(wire) ==
    IF Len(wire) = 5
    THEN {<<97, IF wire[4] = 52 THEN 65 ELSE 11>>}
    ELSE IF Len(wire) = 3
         THEN CASE wire[3] = 48 -> {<<97, 0>>}
                [] wire[3] = 98 -> {<<97, 8>>}
                [] wire[3] = 116 -> {<<97, 9>>}
                [] wire[3] = 110 -> {<<97, 10>>}
                [] wire[3] = 114 -> {<<97, 13>>}
                [] wire[3] = 92 -> {<<97, 92>>}
                [] OTHER -> {}
         ELSE {}

\* C16: decode_text(encode_text(b)) returns b for every byte sequence b;
\* decoding accepts every escape the encoder can emit, with hex digits in
\* either case, and reports every other escape as a decode error.
C16_RoundTrip ==
    alg.phase = "decoded" =>
      /\ alg.back = [err |-> "none", out |-> alg.b]
      /\ \A m \in WireMeaning(alg.wire) :
           alg.dec = [err |-> "none", out |-> m]
      /\ WireMeaning(alg.wire) = {} => alg.dec.err = "ValueError"

-----------------------------------------------------------------------------
(* The server *)

Conns == {"A", "B"}

ChanSize == 10

InitTexts == {<<>>, <<97>>}

NoReply == [editor |-> "none", seq |-> 0 - 1, text |-> <<>>]

\* a task that is not inside on_submission
Outside(pc, reply) ==
    [pc |-> pc, reply |-> reply, edit |-> NoneOp, new_id |-> 0, ot |-> NoneOp,
     todo |-> {}, used |-> 0]

base_edit == Edit(Insert(0, <<>>), ID(0, "server"), ID(0, "server"), "server")

first_edit(txt) == Edit(Insert(0, txt), ID(1, "server"), ID(0, "server"), "server")

\* EditServer.__init__, before any connection is accepted
Init ==
    /\ text \in InitTexts
    /\ edits = IF text # <<>> THEN <<base_edit, first_edit(text)>>
               ELSE <<base_edit>>
    /\ conns = {}
    /\ shadows = [c \in {} |-> Shadow(ID(0, "server"))]
    /\ chans = [c \in {} |-> [data |-> <<>>, send_tasks |-> <<>>]]
    /\ task = [c \in Conns |-> Outside("new", NoReply)]
    /\ crashed = "none"
    /\ nlines = 0
    /\ alg = AlgOff

\* the document after the server edits 0..k
RECURSIVE DocAt(_)
DocAt(k) == IF k = 0 THEN Apply(edits[1].ot, <<>>)
            ELSE Apply(edits[k + 1].ot, DocAt(k - 1))

\* the negotiator replying with the number of edits for the id of the last
NegotiateLen(c) ==
    /\ crashed = "none"
    /\ task[c].pc = "new"
    /\ task' = [task EXCEPT ![c] =
                  Outside("negotiated",
                          [editor |-> "1",
                           seq |-> Len(edits),
                           text |-> encode_text(text)])]
    /\ UNCHANGED <<edits, text, conns, shadows, chans, crashed, nlines, alg>>

\* SocketTransport.negotiator up to the reply: text and edit id are read
\* without a checkpoint in between
Negotiate(c) ==
    /\ crashed = "none"
    /\ task[c].pc = "new"
    /\ task' = [task EXCEPT ![c] =
                  Outside("negotiated",
                          [editor |-> "1",
                           seq |-> edits[Len(edits)].id.id,
                           text |-> encode_text(text)])]
    /\ UNCHANGED <<edits, text, conns, shadows, chans, crashed, nlines, alg>>

\* EditServer.on_connect and the creation of the outbound channel, once the
\* reply has been sent
OnConnect(c) ==
    /\ crashed = "none"
    /\ task[c].pc = "negotiated"
    /\ conns' = conns \cup {c}
    /\ shadows' = [d \in DOMAIN shadows \cup {c} |->
                     IF d = c THEN Shadow(edits[Len(edits)].id)
                     ELSE shadows[d]]
    /\ chans' = [d \in DOMAIN chans \cup {c} |->
                   IF d = c THEN [data |-> <<>>, send_tasks |-> <<>>]
                   ELSE chans[d]]
    /\ task' = [task EXCEPT ![c].pc = "idle"]
    /\ UNCHANGED <<edits, text, crashed, nlines, alg>>

\* SocketTransport.write(conn, msg) by the task of connection c: the channels
\* afterwards, and whether the task is parked until the channel has room
write(chs, c, conn, msg) ==
    IF Len(chs[conn].data) < ChanSize
    THEN [chans |-> [chs EXCEPT ![conn].data = Append(@, msg)],
          parked |-> FALSE]
    ELSE [chans |-> [chs EXCEPT ![conn].send_tasks =
                        Append(@, [task |-> c, value |-> msg])],
          parked |-> TRUE]

\* the append taking the new edit for its own parent
append_editSelfParent(conn, edit, r) ==
    IF r.err # "none" \/ r.ot.type = "None"
    THEN [shadows |-> [shadows EXCEPT ![conn] = r.shadow],
          edits |-> edits, text |-> text,
          new_id |-> 0, ot |-> NoneOp, err |-> r.err]
    ELSE [shadows |-> [shadows EXCEPT ![conn] = r.shadow],
          edits |-> Append(edits,
                           [ot |-> r.ot,
                            id |-> ID(Len(edits), "server"),
                            parent |-> ID(Len(edits), "server"),
                            submitted_id |-> edit.submitted_id]),
          text |-> Apply(r.ot, text),
          new_id |-> Len(edits), ot |-> r.ot, err |-> "none"]

\* the append leaving the update of the document for later
append_editTextLater(conn, edit, r) ==
    IF r.err # "none" \/ r.ot.type = "None"
    THEN [shadows |-> [shadows EXCEPT ![conn] = r.shadow],
          edits |-> edits, text |-> text,
          new_id |-> 0, ot |-> NoneOp, err |-> r.err]
    ELSE [shadows |-> [shadows EXCEPT ![conn] = r.shadow],
          edits |-> Append(edits,
                           [ot |-> r.ot,
                            id |-> ID(Len(edits), "server"),
                            parent |-> ID(Len(edits) - 1, "server"),
                            submitted_id |-> edit.submitted_id]),
          text |-> text,
          new_id |-> Len(edits), ot |-> r.ot, err |-> "none"]

\* the end of EditServer.submission_atomic, r being what new_submission
\* returned: the edit is appended and applied unless r.ot is None
append_edit(conn, edit, r) ==
    IF r.err # "none" \/ r.ot.type = "None"
    THEN [shadows |-> [shadows EXCEPT ![conn] = r.shadow],
          edits |-> edits, text |-> text,
          new_id |-> 0, ot |-> NoneOp, err |-> r.err]
    ELSE [shadows |-> [shadows EXCEPT ![conn] = r.shadow],
          edits |-> Append(edits,
                           [ot |-> r.ot,
                            id |-> ID(Len(edits), "server"),
                            parent |-> ID(Len(edits) - 1, "server"),
                            submitted_id |-> edit.submitted_id]),
          text |-> Apply(r.ot, text),
          new_id |-> Len(edits), ot |-> r.ot, err |-> "none"]

\* every submission handled against the shadow the connection has
shadow_ofKept(conn, edit) == shadows[conn]

\* the shadow a submission is handled against: a new one if the parent is a
\* server edit
shadow_of(conn, edit) ==
    IF edit.parent.editor = "0"
    THEN Shadow(edit.parent)
    ELSE shadows[conn]

\* EditServer.submission_atomic: the state it leaves, what it returns
\* (new_id, ot) and the exception it raised (err)
submission_atomic(conn, edit) ==
    append_edit(conn, edit,
                new_submission(
                    shadow_of(conn, edit), edit,
                    ListFrom(edits, shadow_of(conn, edit).last_known_id.id + 1)))

\* the parent check without the test of a server parent's id
parent_checkNoRange(conn, edit) ==
    IF edit.parent.editor = "0"
    THEN "none"
    ELSE IF edit.parent.editor = "1"
         THEN LET shadow == shadows[conn]
              IN  IF shadow.dirty THEN "none"
                  ELSE IF shadow.submissions # <<>>
                       THEN "AttributeError"
                       ELSE "NameError"
         ELSE "NameError"

\* the parent check of EditServer.on_read: the exception it raises, or "none"
parent_check(conn, edit) ==
    IF edit.parent.editor = "0"
    THEN IF edit.parent.id >= Len(edits)
         THEN "NameError"      \* the message of the ValueError reads XXX
         ELSE "none"
    ELSE IF edit.parent.editor = "1"
         THEN LET shadow == shadows[conn]
              IN  IF shadow.dirty THEN "none"
                  ELSE IF shadow.submissions # <<>>
                       THEN "AttributeError"  \* int != ID reads int.id
                       ELSE "NameError"       \* int != None; message reads XXX
         ELSE "NameError"      \* the message of the ValueError reads editor

accept_msg(id) == [kind |-> "a", id |-> id]

external_msg(new_id, ot) == [kind |-> "x", id |-> new_id, ot |-> encode_ot(ot)]

\* the accept message sent for the submissions that were appended only
accept_writeAppended(conn, edit, ot) ==
    IF ot.type = "None" THEN [chans |-> chans, parked |-> FALSE]
    ELSE write(chans, conn, conn, accept_msg(edit.id.id))

\* on_submission always sends the accept message to the authoring client
accept_write(conn, edit, ot) == write(chans, conn, conn, accept_msg(edit.id.id))

\* on_submission for edit, sa being what submission_atomic returned and w the
\* write of the accept message
on_submission(c, edit, sa, w) ==
    IF sa.err # "none"
    THEN /\ crashed' = sa.err
         /\ shadows' = sa.shadows
         /\ UNCHANGED <<edits, text, conns, chans, task, alg>>
    ELSE /\ edits' = sa.edits
         /\ text' = sa.text
         /\ shadows' = sa.shadows
         /\ chans' = w.chans
         /\ task' = [task EXCEPT ![c] =
                       [@ EXCEPT
                          !.pc = IF w.parked THEN "send_accept" ELSE "accepted",
                          !.edit = edit,
                          !.new_id = sa.new_id,
                          !.ot = sa.ot]]
         /\ UNCHANGED <<conns, crashed, alg>>

\* the handling of a submission line in on_read, fl being what
\* Edit.from_line returned and perr what the parent check raised
handle_submission(c, fl, perr) ==
    IF fl.err # "none"
    THEN /\ crashed' = fl.err
         /\ UNCHANGED <<edits, text, conns, shadows, chans, task, alg>>
    ELSE IF perr # "none"
         THEN /\ crashed' = perr
              /\ UNCHANGED <<edits, text, conns, shadows, chans, task, alg>>
         ELSE \E sa \in {submission_atomic(c, fl.edit)} :
                on_submission(c, fl.edit, sa, accept_write(c, fl.edit, sa.ot))

\* EditServer.on_read for one submission line of connection c, up to the
\* first checkpoint of on_submission (the write of the accept message)
OnRead(c, line) ==
    /\ crashed = "none"
    /\ task[c].pc = "idle"
    /\ nlines < MaxLines
    /\ nlines' = nlines + 1
    /\ \E fl \in {from_line(line, "1")} :
         handle_submission(c, fl, parent_check(c, fl.edit))

\* the broadcast loop of on_submission from its next iteration on: todo are
\* the connections the iterator has not yielded yet
Broadcast(c, todo, used) ==
    IF todo = {}
    THEN /\ task' = [task EXCEPT ![c] = Outside("idle", @.reply)]
         /\ UNCHANGED <<chans, crashed>>
    ELSE \E r \in todo :
           LET w == write(chans, c, r,
                          external_msg(task[c].new_id, task[c].ot))
           IN  /\ chans' = w.chans
               /\ task' = [task EXCEPT ![c] =
                             [@ EXCEPT
                                !.pc = IF w.parked THEN "send_x" ELSE "bcast",
                                !.todo = todo \ {r},
                                !.used = used]]
               /\ UNCHANGED crashed

\* on_submission resumes after the accept message was queued
AfterAccept(c) ==
    /\ crashed = "none"
    /\ task[c].pc = "accepted"
    /\ IF task[c].ot.type = "None"
       THEN /\ task' = [task EXCEPT ![c] = Outside("idle", @.reply)]
            /\ UNCHANGED <<chans, crashed>>
       ELSE Broadcast(c, conns \ {c}, Cardinality(conns))
    /\ UNCHANGED <<edits, text, conns, shadows, nlines, alg>>

\* on_submission resumes inside the loop over self.conns; the set iterator
\* raises if the set changed size since the loop began
BroadcastNext(c) ==
    /\ crashed = "none"
    /\ task[c].pc = "bcast"
    /\ IF Cardinality(conns) # task[c].used
       THEN /\ crashed' = "RuntimeError"
            /\ UNCHANGED <<chans, task>>
       ELSE Broadcast(c, task[c].todo, task[c].used)
    /\ UNCHANGED <<edits, text, conns, shadows, nlines, alg>>

\* SocketTransport.writer takes the next message of connection c's channel and
\* sends it; the channel hands the freed slot to the longest-parked sender
Writer(c) ==
    /\ crashed = "none"
    /\ c \in DOMAIN chans
    /\ chans[c].data # <<>>
    /\ IF chans[c].send_tasks = <<>>
       THEN /\ chans' = [chans EXCEPT ![c].data = Tail(@)]
            /\ UNCHANGED task
       ELSE LET s == Head(chans[c].send_tasks)
            IN  /\ chans' = [chans EXCEPT
                               ![c].data = Append(Tail(@), s.value),
                               ![c].send_tasks = Tail(@)]
                /\ task' = [task EXCEPT ![s.task].pc =
                              IF @ = "send_accept" THEN "accepted"
                              ELSE "bcast"]
    /\ UNCHANGED <<edits, text, conns, shadows, crashed, nlines, alg>>

\* SocketTransport.reader receives no bytes: the stream of a connected
\* client has ended, and the assertion on the received bytes fails
Eof(c) ==
    /\ crashed = "none"
    /\ task[c].pc = "idle"
    /\ crashed' = "AssertionError"
    /\ UNCHANGED <<edits, text, conns, shadows, chans, task, nlines, alg>>

\* SocketTransport.negotiator receives no bytes before the line of the
\* client is complete, and returns
EofNegotiating(c) ==
    /\ crashed = "none"
    /\ task[c].pc = "new"
    /\ task' = [task EXCEPT ![c].pc = "gone"]
    /\ UNCHANGED <<edits, text, conns, shadows, chans, crashed, nlines, alg>>

\* the line of a submission: its id is the number of lines delivered before
\* it (ids grow within each editor), an Insert carries the wire form of txt
Line(pid, peditor, typ, idx, txt) ==
    [id |-> nlines, parent_id |-> pid, parent_editor |-> peditor,
     typ |-> typ, idx |-> idx,
     arg |-> IF typ = "d" THEN Len(txt) ELSE encode_text(txt),
     form |-> "ok"]

\* the text a client inserts with its line: lines differ in their bytes, and
\* in their lengths
LineText == IF nlines % 2 = 0 THEN <<120 + nlines>>
            ELSE <<120 + nlines, 110 + nlines>>

\* b"hello world" and b"cruel "
HelloWorld == <<104, 101, 108, 108, 111, 32, 119, 111, 114, 108, 100>>

Cruel == <<99, 114, 117, 101, 108, 32>>

\* the two lines that first_connection sends to an empty server
FirstConnectionLines ==
    IF nlines = 0 /\ text = <<>>
    THEN {Line(0, "0", "i", 0, HelloWorld)}
    ELSE IF nlines = 1 /\ text = HelloWorld
         THEN {Line(1, "0", "i", 6, Cruel)}
         ELSE {}

\* the lines of clients: an Insert against a server edit the client knows,
\* at an index of the document it saw there
ServerLines ==
    UNION {{Line(p, "0", "i", x, LineText) : x \in 0..Len(DocAt(p))} :
             p \in 0..(Len(edits) - 1)}
    \cup FirstConnectionLines

\* the lines no client should send: an optype that is neither i nor d, an
\* escape that does not exist (\q), fewer than six fields, and a numeric
\* field that is not a number
MalformedLines ==
    {Line(p, "0", "z", 0, LineText) : p \in {0, Len(edits) - 1}}
    \cup {[Line(Len(edits) - 1, "0", "i", 0, LineText) EXCEPT !.arg = <<92, 113>>],
          [Line(Len(edits) - 1, "0", "i", 0, LineText) EXCEPT !.form = "short"],
          [Line(Len(edits) - 1, "0", "i", 0, LineText) EXCEPT !.form = "nondecimal"]}

\* the other lines: a Delete, a parent that is a client edit or a peer's edit
\* and a server parent that does not exist
OtherLines ==
    {Line(p, "0", "d", 0, LineText) : p \in 0..(Len(edits) - 1)}
    \cup {Line(p, "1", "i", 0, LineText) : p \in 0..MaxSeq}
    \cup {Line(0, "2", "i", 0, LineText),
          Line(Len(edits), "0", "i", 0, LineText)}
    \cup MalformedLines

Submit(c) ==
    \E line \in ServerLines : OnRead(c, line)

SubmitOther(c) ==
    \E line \in OtherLines : OnRead(c, line)

Next ==
    \/ \E c \in Conns : Negotiate(c)
    \/ \E c \in Conns : OnConnect(c)
    \/ \E c \in Conns : Submit(c)
    \/ \E c \in Conns : SubmitOther(c)
    \/ \E c \in Conns : AfterAccept(c)
    \/ \E c \in Conns : BroadcastNext(c)
    \/ \E c \in Conns : Writer(c)
    \/ \E c \in Conns : Eof(c)
    \/ \E c \in Conns : EofNegotiating(c)

Spec == Init /\ [][Next]_vars

\* the task steps and the writers run whenever they can; clients need not send
FairSpec ==
    /\ Spec
    /\ \A c \in Conns : /\ WF_vars(AfterAccept(c))
                        /\ WF_vars(BroadcastNext(c))
                        /\ WF_vars(Writer(c))

-----------------------------------------------------------------------------
(* The server with clients that keep typing at the head of the document:    *)
(* enough lines to fill an outbound channel.                                *)

MaxSlowLines == 11

\* the line of a client that inserts one byte at index 0, against the
\* latest server edit
SlowLine == Line(Len(edits) - 1, "0", "i", 0, <<120>>)

\* the outbound channel of connection c holds all the messages it can
Full(c) == c \in DOMAIN chans /\ Len(chans[c].data) = ChanSize

\* the client that does not read what the server sends it: the writer of
\* its connection stays in conn.send
SlowReader == "B"

\* on_read for that line; the client that does not read starts typing once
\* its channel is full
SlowSubmit(c) ==
    /\ crashed = "none"
    /\ task[c].pc = "idle"
    /\ c = SlowReader => Full(c)
    /\ nlines < MaxSlowLines
    /\ nlines' = nlines + 1
    /\ \E fl \in {from_line(SlowLine, "1")} :
         handle_submission(c, fl, parent_check(c, fl.edit))

SlowNext ==
    \E c \in Conns :
        \/ Negotiate(c)
        \/ OnConnect(c)
        \/ SlowSubmit(c)
        \/ AfterAccept(c)
        \/ BroadcastNext(c)
        \/ (c # SlowReader /\ Writer(c))

SlowSpec == Init /\ [][SlowNext]_vars

-----------------------------------------------------------------------------
(* The server with a third connection: two clients type, and each of the    *)
(* three is sent the edits of the other two.                                *)

Conns3 == Conns \cup {"C"}

\* EditServer.__init__ with an empty document, three clients about to connect
Init3 ==
    /\ text = <<>>
    /\ edits = <<base_edit>>
    /\ conns = {}
    /\ shadows = [c \in {} |-> Shadow(ID(0, "server"))]
    /\ chans = [c \in {} |-> [data |-> <<>>, send_tasks |-> <<>>]]
    /\ task = [c \in Conns3 |-> Outside("new", NoReply)]
    /\ crashed = "none"
    /\ nlines = 0
    /\ alg = AlgOff

\* on_read for a line that inserts one byte at index 0 against the latest
\* server edit
Submit3(c) == OnRead(c, SlowLine)

Next3 ==
    \E c \in Conns3 :
        \/ Negotiate(c)
        \/ OnConnect(c)
        \/ Submit3(c)
        \/ AfterAccept(c)
        \/ BroadcastNext(c)
        \/ Writer(c)

Spec3 == Init3 /\ [][Next3]_vars

-----------------------------------------------------------------------------
(* The defragmenter of a connection: a stream received in chunks.           *)

MaxStream == 4

StreamBytes == {10, 97}

\* byts.split(b"\n"): the pieces between the newlines, the piece after the
\* last newline included
RECURSIVE split(_, _, _)
split(byts, piece, k) ==
    IF k > Len(byts) THEN <<piece>>
    ELSE IF byts[k] = 10
         THEN <<piece>> \o split(byts, <<>>, k + 1)
         ELSE split(byts, Append(piece, byts[k]), k + 1)

\* defrag keeping the joined buffer and splitting that
defragJoined(buf, byts) ==
    LET lines == split(buf \o byts, <<>>, 1)
    IN  [buf |-> lines[Len(lines)],
         lines |-> SubSeq(lines, 1, Len(lines) - 1)]

\* defrag(byts) of on_connect: buf is extended by byts, the chunk alone is
\* split, buf becomes its last piece and the other pieces are returned
defrag(buf, byts) ==
    LET lines == split(byts, <<>>, 1)
    IN  [buf |-> lines[Len(lines)],
         lines |-> SubSeq(lines, 1, Len(lines) - 1)]

\* a stream to send, nothing of it received yet
DefragInit ==
    /\ alg \in [phase : {"defrag"}, stream : SeqsUpTo(StreamBytes, MaxStream),
                pos : {0}, buf : {<<>>}, lines : {<<>>}]
    /\ edits = <<>>
    /\ text = <<>>
    /\ conns = {}
    /\ shadows = <<>>
    /\ chans = <<>>
    /\ task = <<>>
    /\ crashed = "none"
    /\ nlines = 0

\* conn.recv returns the next n bytes of the stream and on_read passes them
\* to the defragmenter
Recv(n) ==
    /\ alg.phase = "defrag"
    /\ alg.pos + n <= Len(alg.stream)
    /\ \E d \in {defrag(alg.buf, SubSeq(alg.stream, alg.pos + 1, alg.pos + n))} :
         alg' = [alg EXCEPT !.pos = @ + n,
                            !.buf = d.buf,
                            !.lines = @ \o d.lines]
    /\ UNCHANGED <<edits, text, conns, shadows, chans, task, crashed, nlines>>

DefragNext == \E n \in 1..MaxStream : Recv(n)

DefragSpec == DefragInit /\ [][DefragNext]_vars

-----------------------------------------------------------------------------
(* Properties *)

RECURSIVE ApplyAll(_, _)
ApplyAll(ops, d) ==
    IF ops = <<>> THEN d ELSE ApplyAll(Tail(ops), Apply(Head(ops), d))

Ops(es) == [k \in 1..Len(es) |-> es[k].ot]

\* this step is on_read handling a submission of c up to its accept message
Handled(c) ==
    /\ task[c].pc = "idle"
    /\ task'[c].pc \in {"accepted", "send_accept"}

\* ... and the submission is based on c's own previous submission
HandledChained(c) == Handled(c) /\ task'[c].edit.parent.editor # "0"

\* ... and the submission is based on a server edit
HandledOnServer(c) == Handled(c) /\ task'[c].edit.parent.editor = "0"

\* every message handed to write() for conn that the writer has not taken yet
Outbound(chs, conn) ==
    chs[conn].data
      \o [k \in 1..Len(chs[conn].send_tasks) |-> chs[conn].send_tasks[k].value]

Count(msgs, kind) == Cardinality({k \in 1..Len(msgs) : msgs[k].kind = kind})

\* the ops of the stored submissions; a stored line of unknown optype has none
StoredOps(es) ==
    LET has_ot(e) == e.ot # NoneOp
    IN  Ops(SelectSeq(es, has_ot))

\* the index in H of the server edit of the shadow's latest submission: the
\* edit after last_known_id, or last_known_id itself if the latest stored
\* line had no operation to append
ServerEditOfLatest(shadow) ==
    IF shadow.submissions[Len(shadow.submissions)].ot # NoneOp
    THEN shadow.last_known_id.id + 1
    ELSE shadow.last_known_id.id

ConflictFound(c) ==
    /\ Handled(c)
    /\ shadows'[c].dirty
    /\ task'[c].edit.parent.editor = "0" \/ ~shadows[c].dirty

LineOp(line) ==
    IF line.typ = "i" THEN Insert(line.idx, decode_text(line.arg).out)
    ELSE Delete(line.idx, line.arg, {})

\* x.after(t1).after(t2)... over the ops ts, as far as an operation is left
RECURSIVE AfterAll(_, _)
AfterAll(x, ts) ==
    IF ts = <<>> \/ x.type = "None" THEN x
    ELSE AfterAll(After(x, Head(ts)), Tail(ts))

\* the lines whose parent is an existing server edit and whose operation,
\* an Insert or a Delete, is applicable to the document at that parent
ServerBasedLines ==
    {line \in ServerLines \cup OtherLines :
       /\ line.typ \in {"i", "d"}
       /\ line.form = "ok"
       /\ decode_text(IF line.typ = "i" THEN line.arg ELSE <<>>).err = "none"
       /\ line.parent_editor = "0"
       /\ line.parent_id < Len(edits)
       /\ Applicable(LineOp(line), DocAt(line.parent_id))}

\* C4: a submission based on a server edit, an Insert or a Delete, is
\* appended to H transformed by after() over every later edit in order and
\* applied to the document, and the shadow is marked dirty if it conflicted.
C4_ServerBasedAppended ==
    [][\A c \in Conns : \A line \in ServerBasedLines :
         OnRead(c, line) =>
           LET ts == Ops(ListFrom(edits, line.parent_id + 1))
               x == AfterAll(LineOp(line), ts)
           IN  /\ crashed' = "none"
               /\ x.type # "None" =>
                    /\ edits' = Append(edits,
                                       Edit(x, ID(Len(edits), "server"),
                                            ID(Len(edits) - 1, "server"), "1"))
                    /\ text' = Apply(x, text)
               /\ shadows'[c].dirty =
                    (\E k \in 1..Len(ts) :
                       conflicts(AfterAll(LineOp(line), SubSeq(ts, 1, k - 1)),
                                 ts[k]))]_vars

\* this step is not on_read with a line of c that is based on a server edit,
\* whether the line is handled or ends in an exception
NotReplaced(c) ==
    ~\E line \in ServerLines \cup OtherLines :
        line.parent_editor = "0" /\ OnRead(c, line)

\* C5: once a shadow is dirty, nothing but a submission based on a server
\* edit, which replaces the shadow, changes its submissions, its
\* submission_ids or its tail; only last_known_id may change.
C5_DirtyFrozen ==
    [][\A c \in Conns :
         (c \in conns /\ shadows[c].dirty /\ NotReplaced(c)) =>
           /\ shadows'[c].submissions = shadows[c].submissions
           /\ shadows'[c].submission_ids = shadows[c].submission_ids
           /\ shadows'[c].tail = shadows[c].tail]_vars

\* a dirty shadow has been handed a later submission: its last_known_id has
\* moved past the last edit of its tail
C5_Witness ==
    \E c \in conns :
      /\ shadows[c].dirty
      /\ shadows[c].tail # <<>>
      /\ shadows[c].tail[Len(shadows[c].tail)].old.id.id
           < shadows[c].last_known_id.id
      /\ task[c].edit # NoneOp
      /\ task[c].edit.parent.editor = "1"

\* the shadow of c after this step is a new shadow based at the parent of
\* the submission, with that submission alone handled against it
ShadowReplaced(c) ==
    LET E == task'[c].edit
        new == shadows'[c]
        ext == ListFrom(edits, E.parent.id + 1)
    IN  /\ new.last_known_id = IF ext = <<>> THEN E.parent ELSE ext[Len(ext)].id
        /\ Len(new.tail) = Len(ext)
        /\ \A k \in 1..Len(ext) : new.tail[k].old = ext[k]
        /\ new.submissions = IF new.dirty THEN <<>> ELSE <<E>>
        /\ new.submission_ids = IF new.dirty THEN {} ELSE {E.id}
        /\ new.dirty =
             (\E k \in 1..Len(ext) :
                conflicts(AfterAll(E.ot, SubSeq(Ops(ext), 1, k - 1)),
                          ext[k].ot))

\* C6: a dirty shadow stays dirty for as long as it exists, every submission
\* with a client parent handled against it is rejected (nothing appended to
\* H, document unchanged), and a submission with a server parent always
\* replaces the shadow of its connection, clean or dirty, by a new shadow
\* based at that parent before it is processed.
C6_DirtyAbsorbing ==
    [][\A c \in Conns :
         /\ (c \in conns /\ shadows[c].dirty /\ NotReplaced(c)) =>
              shadows'[c].dirty
         /\ (c \in conns /\ shadows[c].dirty /\ HandledChained(c)) =>
              /\ edits' = edits
              /\ text' = text
              /\ task'[c].ot = NoneOp
         /\ HandledOnServer(c) => ShadowReplaced(c)]_vars

\* a submission with a client parent has been rejected on a dirty shadow
C6_Witness ==
    \E c \in conns :
      /\ shadows[c].dirty
      /\ task[c].pc = "accepted"
      /\ task[c].edit.parent.editor = "1"
      /\ task[c].ot = NoneOp
      /\ edits[Len(edits)].id.id = shadows[c].last_known_id.id

\* C7: H[k].id.seq = k for all k, H[k].parent = H[k-1].id for k >= 1,
\* H[0].parent = H[0].id, and every id in H carries the server editor.
C7_HistoryChain ==
    /\ Len(edits) >= 1
    /\ edits[1].parent = edits[1].id
    /\ \A k \in 1..Len(edits) :
         /\ edits[k].id = ID(k - 1, "server")
         /\ edits[k].parent.editor = "server"
         /\ k >= 2 => edits[k].parent = edits[k - 1].id

\* two submissions have been appended to the history
C7_Witness ==
    /\ Len(edits) >= 3
    /\ edits[Len(edits)].submitted_id.editor = "1"
    /\ edits[Len(edits) - 1].submitted_id.editor = "1"

\* C8: the history is append-only and its entries are immutable: every
\* entry stays at its index with its op, id and parent; handling a
\* submission changes only the shadow of its connection; and the edits a
\* tail was built from are the entries of H, whatever the rebase made of the
\* tail ops.
C8_AppendOnly ==
    [][/\ Len(edits') >= Len(edits)
       /\ SubSeq(edits', 1, Len(edits)) = edits
       /\ \A c \in Conns :
            Handled(c) =>
              \A d \in conns \ {c} : shadows'[d] = shadows[d]
       /\ \A c \in DOMAIN shadows' :
            \A k \in 1..Len(shadows'[c].tail) :
              /\ shadows'[c].tail[k].old.id.id < Len(edits')
              /\ shadows'[c].tail[k].old
                   = edits'[shadows'[c].tail[k].old.id.id + 1]]_vars

\* the rebase has changed a tail op of one shadow while another connection
\* holds a shadow of its own, and the entry of H kept its op
C8_Witness ==
    \E c \in conns : \E d \in conns \ {c} :
      /\ shadows[c].tail # <<>>
      /\ shadows[c].tail[1].ot # shadows[c].tail[1].old.ot
      /\ edits[shadows[c].tail[1].old.id.id + 1].ot = shadows[c].tail[1].old.ot
      /\ shadows[d].tail # <<>>
      /\ shadows[d].tail[1].ot = shadows[d].tail[1].old.ot

Appended(c, d, k) ==
    /\ c \in conns
    /\ d \in conns
    /\ task[c].pc = "accepted"
    /\ task[c].ot.type # "None"
    /\ task[c].new_id = k

\* the external-edit message for server edit k is in d's channel
Delivered(d, k) ==
    /\ d \in conns
    /\ k < Len(edits)
    /\ \E i \in 1..Len(chans[d].data) :
         chans[d].data[i] = external_msg(k, edits[k + 1].ot)

\* C10: for every edit S appended to H from a submission of C, the
\* external-edit message with S.id.seq and the op of S is eventually written
\* to every other connection that was connected when S was appended, and
\* never to C.
C10_Broadcast ==
    /\ \A c \in Conns : \A d \in Conns \ {c} : \A k \in 1..(MaxLines + 1) :
         Appended(c, d, k) ~> Delivered(d, k)
    /\ [][\A c \in Conns :
            (c \in conns /\ task[c].edit # NoneOp
               /\ task[c].pc \in {"accepted", "bcast"}) =>
              Count(Outbound(chans', c), "x") <= Count(Outbound(chans, c), "x")
                \/ \E e \in conns \ {c} : task'[e] # task[e]]_vars

\* the places where a task is suspended inside on_submission
SuspendedPcs == {"send_accept", "accepted", "send_x", "bcast"}

\* C11: the handling of a submission line is one step: the history and the
\* document change only in the step that validates the line, and that step
\* completes the append and the update of the document; the steps of tasks
\* suspended in a write, and of the writers, touch neither the history, the
\* document nor a shadow; a suspended task has its append behind it.
C11_Atomic ==
    [][/\ (edits' # edits \/ text' # text) =>
            \E c \in Conns :
              /\ Handled(c)
              /\ \A d \in Conns \ {c} : task'[d] = task[d]
              /\ Len(edits') = Len(edits) + 1
              /\ task'[c].new_id = Len(edits)
              /\ edits'[Len(edits')].ot = task'[c].ot
              /\ text' = Apply(task'[c].ot, text)
       /\ shadows' # shadows =>
            \E c \in Conns :
              \/ Handled(c)
              \/ task[c].pc = "negotiated" /\ task'[c].pc = "idle"
              \/ task[c].pc = "idle" /\ crashed' # "none"
       /\ \A c \in Conns :
            (task[c].pc \in SuspendedPcs /\ task'[c] # task[c]) =>
              UNCHANGED <<edits, text, shadows>>
       /\ \A c \in Conns :
            (task'[c].pc \in SuspendedPcs /\ task'[c].ot # NoneOp) =>
              /\ task'[c].new_id < Len(edits')
              /\ edits'[task'[c].new_id + 1].ot = task'[c].ot]_vars

\* two submissions are suspended after their accept messages, both appended
C11_Witness ==
    \E c \in conns : \E d \in conns \ {c} :
      /\ task[c].pc = "accepted" /\ task[c].ot # NoneOp
      /\ task[d].pc = "accepted" /\ task[d].ot # NoneOp
      /\ task[c].new_id + 1 = task[d].new_id
      /\ text = DocAt(task[d].new_id)

\* the parent of a line of c is bad: a server edit that does not exist, an
\* editor that is neither the server nor the client, or on a clean shadow a
\* client edit that is not the last stored submission
BadParent(c, line) ==
    \/ line.parent_editor = "0" /\ line.parent_id >= Len(edits)
    \/ line.parent_editor \notin {"0", "1"}
    \/ /\ line.parent_editor = "1"
       /\ ~shadows[c].dirty
       /\ \/ shadows[c].submissions = <<>>
          \/ shadows[c].submissions[Len(shadows[c].submissions)].id
               # ID(line.parent_id, "1")

\* C12: a submission with a bad parent is refused with an error and leaves
\* the history, the document, every shadow and every channel as they were:
\* no accept or external-edit message is written for it.
C12_BadParentRefused ==
    [][\A c \in Conns : \A line \in OtherLines :
         (/\ task[c].pc = "idle"
          /\ line.typ = "i"
          /\ BadParent(c, line)
          /\ OnRead(c, line)) =>
           /\ crashed' # "none"
           /\ UNCHANGED <<edits, text, shadows, chans, task>>]_vars

\* a line with a bad parent has been refused on a server that holds a stored
\* submission and an accept message
C12_Witness ==
    /\ crashed = "NameError"
    /\ \E c \in conns :
         /\ shadows[c].submissions # <<>>
         /\ chans[c].data # <<>>
         /\ task[c].pc = "idle"

\* the parent of a line of c is the last submission stored in c's clean
\* shadow
ChainedOnLast(c, line) ==
    /\ line.parent_editor = "1"
    /\ ~shadows[c].dirty
    /\ shadows[c].submissions # <<>>
    /\ shadows[c].submissions[Len(shadows[c].submissions)].id
         = ID(line.parent_id, "1")

\* C13: on a clean shadow that holds a stored submission, a submission whose
\* parent is the id of the last stored submission passes the parent check and
\* is handled against the shadow the connection has, which is kept.
C13_ChainedPasses ==
    [][\A c \in Conns : \A line \in OtherLines :
         (/\ task[c].pc = "idle"
          /\ line.typ = "i"
          /\ ChainedOnLast(c, line)
          /\ OnRead(c, line)) =>
           /\ crashed' = "none"
           /\ Handled(c)
           /\ Len(shadows'[c].submissions) >= Len(shadows[c].submissions)
           /\ SubSeq(shadows'[c].submissions, 1, Len(shadows[c].submissions))
                = shadows[c].submissions]_vars

\* a line is malformed: its optype is unknown, it is short of fields, a
\* numeric field is not a number, or its Insert text has an escape that
\* does not exist
Malformed(line) ==
    \/ line.typ \notin {"i", "d"}
    \/ line.form # "ok"
    \/ line.typ = "i" /\ \E k \in 1..(Len(line.arg) - 1) :
                           line.arg[k] = 92 /\ line.arg[k + 1] = 113

\* C14: a malformed submission line is refused before any state is touched:
\* the history, the document, every shadow and every channel are unchanged
\* and no accept is written.
C14_MalformedRefused ==
    [][\A c \in Conns : \A line \in MalformedLines :
         (task[c].pc = "idle" /\ Malformed(line) /\ OnRead(c, line)) =>
           /\ crashed' # "none"
           /\ UNCHANGED <<edits, text, shadows, chans, task>>]_vars

\* C15: a well-formed line of optype d with a server parent is decoded to the
\* non-invertible Delete(idx, nchars) and handled like an Insert: the
\* submission is taken through the rebase and its accept message is written
\* to the author.
C15_DeleteHandled ==
    [][\A c \in Conns : \A line \in OtherLines :
         (/\ task[c].pc = "idle"
          /\ line.typ = "d"
          /\ line.form = "ok"
          /\ line.parent_editor = "0"
          /\ line.parent_id < Len(edits)
          /\ OnRead(c, line)) =>
           /\ Handled(c)
           /\ task'[c].edit.ot = Delete(line.idx, line.arg, {})
           /\ Outbound(chans', c)
                = Append(Outbound(chans, c), accept_msg(line.id))]_vars

\* C19: when the inbound stream of a connected client ends, the server
\* removes the shadow of the connection and no longer takes it for a
\* recipient of broadcasts, and the history and the document stay as they
\* were.
C19_DisconnectCleansUp ==
    [][\A c \in Conns :
         Eof(c) =>
           /\ c \notin DOMAIN shadows'
           /\ c \notin conns'
           /\ crashed' = "none"
           /\ edits' = edits
           /\ text' = text]_vars

\* the connection has its reply of the negotiation
Negotiated(c) == task[c].reply # NoReply

\* C20: no two connections that negotiate receive the same editor id, and
\* the submissions of a connection carry the editor id it was given.
C20_OwnEditorId ==
    /\ \A c \in Conns : \A d \in Conns \ {c} :
         (Negotiated(c) /\ Negotiated(d)) =>
           task[c].reply.editor # task[d].reply.editor
    /\ \A c \in conns :
         \A k \in 1..Len(shadows[c].submissions) :
           shadows[c].submissions[k].id.editor = task[c].reply.editor

C22_ReplySnapshot ==
    \A c \in Conns :
      Negotiated(c) =>
        /\ task[c].reply.seq >= 0
        /\ task[c].reply.seq < Len(edits)
        /\ edits[task[c].reply.seq + 1].id.id = task[c].reply.seq
        /\ task[c].reply.text = encode_text(DocAt(task[c].reply.seq))

\* a reply is still to be sent while another connection's submission has
\* moved the history and the document on
C22_Witness ==
    \E c \in Conns :
      /\ task[c].pc = "negotiated"
      /\ task[c].reply.seq + 1 < Len(edits)
      /\ task[c].reply.text # encode_text(text)
      /\ \E d \in conns : task[d].pc = "accepted" /\ task[d].ot # NoneOp

\* C23: the tail of a shadow never holds the server-space form of a
\* submission of its own connection.  Connections are never removed, so
\* while c is the only one every edit of H that a client submitted is c's.
C23_TailExternalOnly ==
    \A c \in conns :
      conns = {c} =>
        \A k \in 1..Len(shadows[c].tail) :
          shadows[c].tail[k].old.submitted_id.editor = "server"

\* C24: when the rebase of a Delete submission over the tail comes to None
\* at some position, new_submission still returns without an error, with
\* the shadow dirty and nothing to append.
C24_NoneCompletes ==
    (alg.phase = "submitted" /\ AfterAll(alg.x, alg.new_ops) = NoneOp) =>
        /\ alg.res.err = "none"
        /\ alg.res.shadow.dirty
        /\ alg.res.ot = NoneOp

\* C25: a Delete transformed over an operation it conflicts with is None
\* or carries no recovered text.
C25_ConflictDropsText ==
    (/\ alg.phase = "converge"
     /\ alg.a.type = "Delete"
     /\ alg.c_ab)
    => (alg.a_b = NoneOp \/ alg.a_b.text = {})

\* where an operation deletes or inserts, its text left aside
Span(i, n) == [idx |-> i, nchars |-> n]

SpanOf(op) == IF op = NoneOp THEN NoneOp ELSE Span(op.idx, op.nchars)

\* the rows for Delete(i, n) after Insert(j, u), len being len(u), a row
\* applying where no earlier row does; an Insert at i+n leaves the Delete
\* alone only if it is not at i as well
DeleteAfterInsertRows(i, n, j, len) ==
    IF j > i + n \/ (j = i + n /\ n > 0) THEN Span(i, n)
    ELSE IF j <= i THEN Span(i + len, n)
    ELSE Span(i, n + len)

\* the same rows with an Insert at i+n leaving every Delete alone
DeleteAfterInsertRowsStated(i, n, j, len) ==
    IF j > i + n \/ j = i + n THEN Span(i, n)
    ELSE IF j <= i THEN Span(i + len, n)
    ELSE Span(i, n + len)

\* the rows for Delete(i, n) after Delete(j, m)
DeleteAfterDeleteRows(i, n, j, m) ==
    IF j >= i + n THEN Span(i, n)
    ELSE IF j + m <= i THEN Span(i - m, n)
    ELSE IF j <= i /\ j + m >= i + n THEN NoneOp
    ELSE IF j <= i /\ j + m < i + n THEN Span(j, n - (m - (i - j)))
    ELSE IF j > i /\ j + m > i + n THEN Span(i, j - i)
    ELSE Span(i, n - m)

\* C26: Delete(i, n).after(other) is what the rows give for every other,
\* the Insert at i+n leaving the Delete unchanged when n > 0.
C26_DeleteTable ==
    (alg.phase = "converge" /\ alg.a.type = "Delete") =>
        SpanOf(alg.a_b) =
            IF alg.b.type = "Insert"
            THEN DeleteAfterInsertRows(alg.a.idx, alg.a.nchars,
                                       alg.b.idx, Len(alg.b.text))
            ELSE DeleteAfterDeleteRows(alg.a.idx, alg.a.nchars,
                                       alg.b.idx, alg.b.nchars)

\* C26 as stated: an Insert at i+n leaves Delete(i, n) unchanged, n = 0
\* included.
C26_DeleteTableAsStated ==
    (alg.phase = "converge" /\ alg.a.type = "Delete") =>
        SpanOf(alg.a_b) =
            IF alg.b.type = "Insert"
            THEN DeleteAfterInsertRowsStated(alg.a.idx, alg.a.nchars,
                                             alg.b.idx, Len(alg.b.text))
            ELSE DeleteAfterDeleteRows(alg.a.idx, alg.a.nchars,
                                       alg.b.idx, alg.b.nchars)

\* a Delete has been moved right by an Insert before it, and a Delete has
\* been cut down to None by a Delete that covers it
C26_Witness ==
    /\ alg.phase = "converge"
    /\ alg.a.type = "Delete" /\ alg.a.nchars > 0
    /\ \/ /\ alg.b.type = "Insert" /\ alg.b.idx < alg.a.idx
          /\ Len(alg.b.text) > 0
          /\ alg.a_b = Delete(alg.a.idx + Len(alg.b.text), alg.a.nchars,
                              alg.a.text)
       \/ /\ alg.b.type = "Delete" /\ alg.b.idx < alg.a.idx
          /\ alg.b.idx + alg.b.nchars > alg.a.idx + alg.a.nchars
          /\ alg.a_b = NoneOp

\* the rows for Insert(i, t) after another operation
InsertAfterRows(i, t, other) ==
    IF other.type = "Insert"
    THEN IF other.idx > i THEN Insert(i, t)
         ELSE Insert(i + Len(other.text), t)
    ELSE IF other.idx > i THEN Insert(i, t)
         ELSE IF other.idx + other.nchars < i THEN Insert(i - other.nchars, t)
         ELSE Insert(other.idx, t)

\* C27: Insert(i, t).after(other) is what the rows give for every other: a
\* tie with an Insert places it after the other one, a Delete that reaches
\* i brings it to the Delete's index, and its text is never changed.
C27_InsertTable ==
    (alg.phase = "converge" /\ alg.a.type = "Insert") =>
        alg.a_b = InsertAfterRows(alg.a.idx, alg.a.text, alg.b)

\* an Insert tied with a non-empty Insert has been placed after it, or an
\* Insert inside a Delete has been brought to the Delete's index
C27_Witness ==
    /\ alg.phase = "converge"
    /\ alg.a.type = "Insert" /\ Len(alg.a.text) > 0
    /\ \/ /\ alg.b.type = "Insert" /\ alg.b.idx = alg.a.idx
          /\ Len(alg.b.text) > 0
          /\ alg.a_b = Insert(alg.a.idx + Len(alg.b.text), alg.a.text)
       \/ /\ alg.b.type = "Delete" /\ alg.b.idx < alg.a.idx
          /\ alg.b.idx + alg.b.nchars > alg.a.idx
          /\ alg.a_b = Insert(alg.b.idx, alg.a.text)

\* whether the closed intervals [i, i+n] and [j, j+m] intersect
Touch(i, n, j, m) == i <= j + m /\ j <= i + n

\* C28: conflicts(a, b) is true exactly for two Inserts at one index, two
\* Deletes whose closed intervals intersect, and an Insert whose index lies
\* in the closed interval of a Delete.
C28_ConflictsTable ==
    alg.phase = "converge" =>
        alg.c_ab =
            IF alg.a.type = "Insert" /\ alg.b.type = "Insert"
            THEN alg.a.idx = alg.b.idx
            ELSE IF alg.a.type = "Delete" /\ alg.b.type = "Delete"
                 THEN Touch(alg.a.idx, alg.a.nchars, alg.b.idx, alg.b.nchars)
                 ELSE IF alg.a.type = "Insert"
                      THEN Touch(alg.a.idx, 0, alg.b.idx, alg.b.nchars)
                      ELSE Touch(alg.b.idx, 0, alg.a.idx, alg.a.nchars)

\* two Deletes that only touch, the higher one given first, conflict
C28_Witness ==
    /\ alg.phase = "converge"
    /\ alg.a.type = "Delete" /\ alg.b.type = "Delete"
    /\ alg.b.nchars > 0 /\ alg.a.nchars > 0
    /\ alg.b.idx + alg.b.nchars = alg.a.idx
    /\ alg.c_ab

\* C29: however the stream is cut into chunks, the lines handed on are the
\* newline-terminated lines of the bytes received so far.
C29_LinesOfStream ==
    alg.phase = "defrag" =>
        alg.lines = defragJoined(<<>>, SubSeq(alg.stream, 1, alg.pos)).lines

\* C30: while the outbound channel of some connection is full, no
\* submission of any connection is appended to H.
C30_FullChannelStalls ==
    [][(\E c \in Conns : Full(c)) => edits' = edits]_vars

\* C31: the external-edit messages queued for a connection are in strictly
\* increasing order of their server ids.
C31_SeqOrder ==
    \A c \in DOMAIN chans :
      \A p, q \in 1..Len(chans[c].data) :
        (/\ p < q
         /\ chans[c].data[p].kind = "x"
         /\ chans[c].data[q].kind = "x")
        => chans[c].data[p].id < chans[c].data[q].id

\* the edit with server id k is still to be broadcast: the task that
\* appended it has not begun its loop over the connections
ToBroadcast(k) ==
    \E d \in conns :
        /\ task[d].pc \in {"send_accept", "accepted"}
        /\ task[d].ot # NoneOp
        /\ task[d].new_id = k

\* C32: a connection that was told initial_seq = k misses no later edit:
\* when it is added to the connections, every edit with a server id above k
\* is still to be broadcast.
C32_NoneMissed ==
    [][\A c \in Conns :
         OnConnect(c) =>
           \A k \in (task[c].reply.seq + 1)..(Len(edits) - 1) : ToBroadcast(k)]_vars

\* C33: a connection that was told initial_seq = k is never sent the
\* external-edit message of an edit with a server id of k or less.
C33_NoneTwice ==
    \A c \in DOMAIN chans :
      \A p \in 1..Len(chans[c].data) :
        chans[c].data[p].kind = "x" => chans[c].data[p].id > task[c].reply.seq

\* C34: the document is the result of applying the ops of H[0], H[1], ...
\* in order to the empty document.
C34_DocumentIsHistory ==
    text = ApplyAll(Ops(edits), <<>>)

\* the server started with a text and has appended two submissions, the
\* last one not at the start of the document
C34_Witness ==
    /\ Len(edits) >= 4
    /\ edits[2].submitted_id.editor = "server"
    /\ edits[Len(edits)].submitted_id.editor = "1"
    /\ edits[Len(edits)].ot.idx > 0
    /\ Len(text) >= 3

\* C35: every op appended to H is applicable to the document as it is when
\* the op is appended, the op of a submission whose rebase found a conflict
\* included.
C35_AppendedApplicable ==
    [][edits' # edits =>
         /\ Len(edits') = Len(edits) + 1
         /\ Applicable(edits'[Len(edits')].ot, text)
         /\ text' = Apply(edits'[Len(edits')].ot, text)]_vars

\* a submission written at the end of an older document has been appended,
\* moved right by an edit it conflicts with, at the end of the document
C35_Witness ==
    \E c \in conns :
      /\ task[c].pc = "accepted"
      /\ task[c].ot # NoneOp
      /\ shadows[c].dirty
      /\ task[c].edit.ot.idx > 0
      /\ task[c].ot.idx > task[c].edit.ot.idx
      /\ task[c].ot.idx + Len(task[c].ot.text) = Len(text)

\* C36: for operations a, b that do not conflict, a.after(b) is an
\* operation of a's variant with a's text, or a's nchars and recovered text,
\* in which at most idx has changed; after() returns None only for pairs
\* that conflict.
C36_AfterLossless ==
    alg.phase = "converge" =>
        /\ ~alg.c_ab => (/\ alg.a_b # NoneOp
                         /\ alg.a_b = [alg.a EXCEPT !.idx = alg.a_b.idx])
        /\ alg.a_b = NoneOp => alg.c_ab

\* a Delete that carries its text has been moved left by a Delete before
\* it that it does not touch
C36_Witness ==
    /\ alg.phase = "converge"
    /\ ~alg.c_ab
    /\ alg.a.type = "Delete" /\ alg.a.nchars > 0 /\ alg.a.text # {}
    /\ alg.b.type = "Delete" /\ alg.b.nchars > 0
    /\ alg.a_b = Delete(alg.a.idx - alg.b.nchars, alg.a.nchars, alg.a.text)

====
